---- MODULE Spec2Model ----
(***************************************************************************)
(* Canvas (src/src/video/canvas.cpp): the deferred drawing queue.          *)
(*                                                                         *)
(* Requests are objects carved from the obstack m_obst; m_requests holds   *)
(* pointers to them.  A pointer is modelled as the index of the object in  *)
(* m_obst.  Floating point values are modelled exactly.  A coordinate, a    *)
(* length or a translation (float) is an integer number of half units, so  *)
(* that to_int_vec has a fraction to drop and a width halves without loss; *)
(* the int values of the code (the size of a surface, the viewport, the    *)
(* regions of a surface) are whole units, and Float is the cast between    *)
(* the two.  An alpha value is a float that is finite, not negative and    *)
(* below 2^24: the binary fraction num / 2^exp in lowest terms, num of at  *)
(* most 24 bits.  A product of two of them is rounded to the nearest such  *)
(* fraction, as the multiplication of two floats is.                       *)
(***************************************************************************)
EXTENDS Integers, Sequences, FiniteSets, TLC

VARIABLES
  m_context,      \* the DrawingContext the canvas reads: transform, viewport, cliprect
  m_obst,         \* the obstack: the request objects allocated so far (or Destructed)
  m_requests,     \* std::vector<DrawingRequest*>: indices into m_obst
  cells,          \* the std::shared_ptr<Color> cells handed to get_pixel
  painter_calls,  \* the Painter calls made by the last operation, in order
  destructed,     \* the requests whose destructor the last operation invoked, in order,
                  \* each with its tag and its counts of visits and cell writes
  visits,         \* per object: render passes that iterated over it since it was enqueued
  writes,         \* per object: Painter get_pixel calls made for it, each a write of
                  \* the cell it holds
  alive,          \* the canvas is constructed and not yet destroyed
  call            \* the last operation performed and how it returned

vars == <<m_context, m_obst, m_requests, cells, painter_calls, destructed,
          visits, writes, alive, call>>

----------------------------------------------------------------------------
(* Bounds of the model *)

\* objects allocated from the obstack between two obstack_free, in Spec and SpecGeom
MaxAlloc == 2
\* the same in SpecOrder, whose requests differ in their layer alone
MaxQueue == 3
\* render passes over one request
MaxPasses == 2
\* objects allocated between two obstack_free in SpecFields, whose requests
\* differ in every field
MaxFields == 1

----------------------------------------------------------------------------
(* Program constants *)

\* The layers are named in video/layer.hpp, which is not among the sources;
\* the values are those of SuperTux, where pixel queries are handled last.
LAYER_LIGHTMAP == 450
LAYER_GETPIXEL == 600

\* Canvas::Filter
Filters == {"ALL", "BELOW_LIGHTMAP", "ABOVE_LIGHTMAP"}

\* the float num / 2^exp, in lowest terms: num is odd, or the float is 0
RECURSIVE Alpha(_, _)
Alpha(num, exp) ==
  IF num = 0 THEN [num |-> 0, exp |-> 0]
  ELSE IF num % 2 = 0 THEN Alpha(num \div 2, exp - 1)
  ELSE [num |-> num, exp |-> exp]

\* alpha 1.0
AlphaOne == Alpha(1, 0)

\* Color(0, 0, 0): alpha defaults to 1.0
Black == [rgb |-> <<0, 0, 0>>, alpha |-> AlphaOne]
\* Color(1.0f, 1.0f, 1.0f)
White == [rgb |-> <<1, 1, 1>>, alpha |-> AlphaOne]

\* the slot of an object whose destructor has run
Destructed == [type |-> "DESTRUCTED"]

\* an empty SurfacePtr or FontPtr
nullptr == [null |-> TRUE]

\* an empty std::shared_ptr<Color>
NullCell == 0

----------------------------------------------------------------------------
(* Vector, Rect and flip arithmetic *)

Vector(x, y) == <<x, y>>
VSub(a, b) == <<a[1] - b[1], a[2] - b[2]>>
VAdd(a, b) == <<a[1] + b[1], a[2] + b[2]>>

\* Rectf(p1, size) and Rectf(p1, p2) both hold two corners
RectfSize(p1, size) == [p1 |-> p1, p2 |-> VAdd(p1, size)]
RectfCorners(p1, p2) == [p1 |-> p1, p2 |-> p2]
get_size(r) == VSub(r.p2, r.p1)
rect_width(r) == r.p2[1] - r.p1[1]
rect_height(r) == r.p2[2] - r.p1[2]

XorBit(a, b) == (a + b) % 2

\* the flips combined by | instead of ^
FlipOr(a, b) ==
  (IF a % 2 = 1 \/ b % 2 = 1 THEN 1 ELSE 0) + (IF a \div 2 = 1 \/ b \div 2 = 1 THEN 2 ELSE 0)

\* Flip is a two bit mask (VERTICAL_FLIP, HORIZONTAL_FLIP); ^ is bitwise
FlipXor(a, b) == XorBit(a % 2, b % 2) + 2 * XorBit(a \div 2, b \div 2)

RECURSIVE Pow2(_)
Pow2(n) == IF n = 0 THEN 1 ELSE 2 * Pow2(n - 1)

\* the number of bits of n
RECURSIVE BitLen(_)
BitLen(n) == IF n = 0 THEN 0 ELSE 1 + BitLen(n \div 2)

\* the significand of a float has 24 bits, and its least bit is worth no
\* less than 2^-149
SignificandBits == 24
MinExponent == 149

\* the float nearest to (hi * 2^24 + lo) / 2^exp, the even one of two that
\* are as near: the bits below the 24 highest (and below 2^-149) are
\* dropped, and the rest goes up by one when they were more than half of its
\* least bit, or just half and the rest is odd
RoundFloat(hi, lo, exp) ==
  LET bits == IF hi = 0 THEN BitLen(lo) ELSE SignificandBits + BitLen(hi)
      over == bits - SignificandBits
      under == exp - MinExponent
      drop == IF over >= under /\ over >= 0 THEN over
              ELSE IF under >= 0 THEN under ELSE 0
  IN  IF drop = 0 THEN Alpha(lo, exp)
      ELSE IF drop > 2 * SignificandBits THEN Alpha(0, 0)
      ELSE IF drop <= SignificandBits
      THEN LET kept == hi * Pow2(SignificandBits - drop) + lo \div Pow2(drop)
               rest == lo % Pow2(drop)
               half == Pow2(drop - 1)
               up == rest > half \/ (rest = half /\ kept % 2 = 1)
           IN  Alpha(IF up THEN kept + 1 ELSE kept, exp - drop)
      ELSE LET kept == hi \div Pow2(drop - SignificandBits)
               rest == hi % Pow2(drop - SignificandBits)
               half == Pow2(drop - SignificandBits - 1)
               up == \/ rest > half
                     \/ rest = half /\ lo > 0
                     \/ rest = half /\ lo = 0 /\ kept % 2 = 1
           IN  Alpha(IF up THEN kept + 1 ELSE kept, exp - drop)

\* alpha * alpha: the product of the two significands, taken in halves of 12
\* bits, over the product of the two powers of 2, rounded to a float
AlphaMul(a, b) ==
  LET limb == Pow2(12)
      a1 == a.num \div limb
      a0 == a.num % limb
      b1 == b.num \div limb
      b0 == b.num % limb
      mid == a1 * b0 + a0 * b1
      low == a0 * b0 + (mid % limb) * limb
      lo == low % Pow2(SignificandBits)
      hi == a1 * b1 + mid \div limb + low \div Pow2(SignificandBits)
  IN  RoundFloat(hi, lo, a.exp + b.exp)

\* static_cast<float>(n): a whole number of units, in half units
Float(n) == 2 * n

\* Rectf(const Rect&)
Rectf(rect) ==
  [p1 |-> <<Float(rect.p1[1]), Float(rect.p1[2])>>,
   p2 |-> <<Float(rect.p2[1]), Float(rect.p2[2])>>]

\* Vector::to_int_vec: the whole part of each coordinate
to_int_vec(t) == <<Float(t[1] \div 2), Float(t[2] \div 2)>>

----------------------------------------------------------------------------
(* Canvas::apply_translate *)

\* a transform that leaves out the origin of the viewport
apply_translate_unplaced(ctx, pos) == VSub(pos, to_int_vec(ctx.translation))

apply_translate(ctx, pos) ==
  LET translation == to_int_vec(ctx.translation)
  IN  VAdd(VSub(pos, translation),
           Vector(Float(ctx.viewport.left), Float(ctx.viewport.top)))

----------------------------------------------------------------------------
(* The operations of Canvas.  Every operation leaves in `call' its name,    *)
(* the arguments it was called with and how it returned.                   *)

Returned(op, args, outcome) == [op |-> op, args |-> args, outcome |-> outcome]

\* the arguments of an operation that takes none
NoArgs == <<>>

\* the canvas exists: it was constructed and ~Canvas has not run
Alive == alive

\* the request put at the front of the queue
EnqueueFront(request, op, args) ==
  /\ m_obst' = Append(m_obst, request)
  /\ m_requests' = <<Len(m_obst) + 1>> \o m_requests
  /\ visits' = Append(visits, 0)
  /\ writes' = Append(writes, 0)
  /\ painter_calls' = <<>>
  /\ destructed' = <<>>
  /\ call' = Returned(op, args, "enqueued")
  /\ UNCHANGED <<m_context, cells, alive>>

\* a canvas that takes no request once a render pass has run on its queue
EnqueueWhileOpen(request, op, args) ==
  IF call.op = "render" \/ \E i \in 1..Len(m_requests) : visits[m_requests[i]] >= 1
  THEN /\ painter_calls' = <<>>
       /\ destructed' = <<>>
       /\ call' = Returned(op, args, "rejected")
       /\ UNCHANGED <<m_context, m_obst, m_requests, cells, visits, writes, alive>>
  ELSE /\ m_obst' = Append(m_obst, request)
       /\ m_requests' = Append(m_requests, Len(m_obst) + 1)
       /\ visits' = Append(visits, 0)
       /\ writes' = Append(writes, 0)
       /\ painter_calls' = <<>>
       /\ destructed' = <<>>
       /\ call' = Returned(op, args, "enqueued")
       /\ UNCHANGED <<m_context, cells, alive>>

\* new(m_obst) T followed by m_requests.push_back(request)
Enqueue(request, op, args) ==
  /\ m_obst' = Append(m_obst, request)
  /\ m_requests' = Append(m_requests, Len(m_obst) + 1)
  /\ visits' = Append(visits, 0)
  /\ writes' = Append(writes, 0)
  /\ painter_calls' = <<>>
  /\ destructed' = <<>>
  /\ call' = Returned(op, args, "enqueued")
  /\ UNCHANGED <<m_context, cells, alive>>

\* an operation that returns before it allocates anything
ReturnEarly(op, args, outcome) ==
  /\ painter_calls' = <<>>
  /\ destructed' = <<>>
  /\ call' = Returned(op, args, outcome)
  /\ UNCHANGED <<m_context, m_obst, m_requests, visits, writes, alive>>

\* assert(...) fails, or a null pointer is followed: the process ends where it
\* stands, and no destructor runs
Abort(op, args, outcome) ==
  /\ alive' = FALSE
  /\ painter_calls' = <<>>
  /\ destructed' = <<>>
  /\ call' = Returned(op, args, outcome)
  /\ UNCHANGED <<m_context, m_obst, m_requests, cells, visits, writes>>

\* the test made on the position in device space
ClippedTranslated(cliprect, position, surface) ==
  LET pos == apply_translate(m_context, position)
  IN  \/ pos[1] > cliprect.right
      \/ pos[2] > cliprect.bottom
      \/ pos[1] + Float(surface.width) < cliprect.left
      \/ pos[2] + Float(surface.height) < cliprect.top

\* "discard clipped surface": the test of Canvas::draw_surface
Clipped(cliprect, position, surface) ==
  \/ position[1] > cliprect.right
  \/ position[2] > cliprect.bottom
  \/ position[1] + Float(surface.width) < cliprect.left
  \/ position[2] + Float(surface.height) < cliprect.top

TextureRequest6(ctx, surface, position, angle, color, blend, layer) ==
  [type |-> "TEXTURE",
   layer |-> layer,
   flip |-> FlipXor(ctx.flip, surface.flip),
   alpha |-> ctx.alpha,
   angle |-> angle,
   blend |-> blend,
   srcrects |-> <<Rectf(surface.region)>>,
   dstrects |-> <<RectfSize(apply_translate(ctx, position),
                            Vector(Float(surface.width), Float(surface.height)))>>,
   texture |-> surface.texture,
   displacement_texture |-> surface.displacement_texture,
   color |-> color]

draw_surface6(op, surface, position, angle, color, blend, layer) ==
  /\ Alive
  /\ LET args == [surface |-> surface, position |-> position, angle |-> angle,
                  color |-> color, blend |-> blend, layer |-> layer]
     IN  IF surface = nullptr
         THEN Abort(op, args, "assert_failed")
         ELSE IF Clipped(m_context.cliprect, position, surface)
         THEN /\ ReturnEarly(op, args, "clipped")
              /\ UNCHANGED cells
         ELSE /\ Enqueue(TextureRequest6(m_context, surface, position, angle, color,
                                         blend, layer), op, args)

\* Canvas::draw_surface(surface, position, angle, color, blend, layer)
draw_surface(surface, position, angle, color, blend, layer) ==
  draw_surface6("draw_surface", surface, position, angle, color, blend, layer)

\* Canvas::draw_surface(surface, position, layer)
draw_surface_simple(surface, position, layer) ==
  draw_surface6("draw_surface", surface, position, 0, White, "Blend()", layer)

\* angle keeps the value the constructor gives it
TextureRequestPart(ctx, surface, srcrect, dstrect, layer, style) ==
  [type |-> "TEXTURE",
   layer |-> layer,
   flip |-> FlipXor(ctx.flip, surface.flip),
   alpha |-> AlphaMul(ctx.alpha, style.alpha),
   angle |-> 0,
   blend |-> style.blend,
   srcrects |-> <<srcrect>>,
   dstrects |-> <<RectfSize(apply_translate(ctx, dstrect.p1), get_size(dstrect))>>,
   texture |-> surface.texture,
   displacement_texture |-> surface.displacement_texture,
   color |-> style.color]

draw_surface_part5(op, surface, srcrect, dstrect, layer, style) ==
  /\ Alive
  /\ LET args == [surface |-> surface, srcrect |-> srcrect, dstrect |-> dstrect,
                  layer |-> layer, style |-> style]
     IN  IF surface = nullptr
         THEN Abort(op, args, "assert_failed")
         ELSE Enqueue(TextureRequestPart(m_context, surface, srcrect, dstrect, layer,
                                         style), op, args)

\* Canvas::draw_surface_part
draw_surface_part(surface, srcrect, dstrect, layer, style) ==
  draw_surface_part5("draw_surface_part", surface, srcrect, dstrect, layer, style)

\* what surface->get_width() on an empty SurfacePtr can do: the read faults;
\* or an assertion fails, that of the pointer's operator-> where the library
\* is built with its assertions, else that of draw_surface_part when the
\* read has yielded some value
ScaledNullOutcomes == {"segfault", "assert_failed"}

\* Canvas::draw_surface_scaled: the source rectangle is read from the surface
\* before draw_surface_part asserts that there is one
draw_surface_scaled(surface, dstrect, layer, style) ==
  IF surface = nullptr
  THEN /\ Alive
       /\ \E outcome \in ScaledNullOutcomes :
             Abort("draw_surface_scaled",
                   [surface |-> surface, dstrect |-> dstrect, layer |-> layer,
                    style |-> style], outcome)
  ELSE draw_surface_part5("draw_surface_scaled", surface,
                          RectfCorners(Vector(0, 0), Vector(Float(surface.width),
                                                            Float(surface.height))),
                          dstrect, layer, style)

\* angle and blend keep the values the constructor gives them
TextureRequestBatch(ctx, surface, srcrects, dstrects, color, layer) ==
  [type |-> "TEXTURE",
   layer |-> layer,
   flip |-> FlipXor(ctx.flip, surface.flip),
   alpha |-> ctx.alpha,
   angle |-> 0,
   blend |-> "Blend()",
   srcrects |-> srcrects,
   dstrects |-> [i \in 1..Len(dstrects) |->
                   RectfSize(apply_translate(ctx, dstrects[i].p1), get_size(dstrects[i]))],
   texture |-> surface.texture,
   displacement_texture |-> surface.displacement_texture,
   color |-> color]

\* Canvas::draw_surface_batch
draw_surface_batch(surface, srcrects, dstrects, color, layer) ==
  /\ Alive
  /\ LET args == [surface |-> surface, srcrects |-> srcrects, dstrects |-> dstrects,
                  color |-> color, layer |-> layer]
     IN  IF surface = nullptr
         THEN Abort("draw_surface_batch", args, "assert_failed")
         ELSE Enqueue(TextureRequestBatch(m_context, surface, srcrects, dstrects, color,
                                          layer), "draw_surface_batch", args)

\* Font::draw_text(canvas, text, pos, alignment, layer, color): the font lays
\* the glyphs out from the aligned position and hands them, as one batch on
\* its glyph surface, back to the canvas
Font_draw_text(op, args, font, text, pos, alignment, layer, color) ==
  LET glyph == font.glyphs
      width == Float(Len(text) * glyph.width)
      x == CASE alignment = "ALIGN_LEFT" -> pos[1]
             [] alignment = "ALIGN_CENTER" -> pos[1] - width \div 2
             [] alignment = "ALIGN_RIGHT" -> pos[1] - width
      srcrects == [i \in 1..Len(text) |-> Rectf(glyph.region)]
      dstrects == [i \in 1..Len(text) |->
                     RectfSize(Vector(x + (i - 1) * Float(glyph.width), pos[2]),
                               Vector(Float(glyph.width), Float(glyph.height)))]
  IN  Enqueue(TextureRequestBatch(m_context, glyph, srcrects, dstrects, color, layer),
              op, args)

\* what font->draw_text(...) on an empty FontPtr can do: the assertion of the
\* pointer's operator-> fails, where the library is built with its
\* assertions; or else the call faults where Font::draw_text reads a member
\* of the font, or comes back without having drawn ("undefined") where it
\* reads none before it returns; the canvas asserts nothing
TextNullOutcomes == {"assert_failed", "segfault", "undefined"}

draw_text6(op, args, font, text, pos, alignment, layer, color) ==
  /\ Alive
  /\ IF font = nullptr
     THEN \E outcome \in TextNullOutcomes :
             IF outcome = "undefined"
             THEN ReturnEarly(op, args, outcome) /\ UNCHANGED cells
             ELSE Abort(op, args, outcome)
     ELSE Font_draw_text(op, args, font, text, pos, alignment, layer, color)

\* Canvas::draw_text
draw_text(font, text, pos, alignment, layer, color) ==
  draw_text6("draw_text",
             [font |-> font, text |-> text, pos |-> pos, alignment |-> alignment,
              layer |-> layer, color |-> color],
             font, text, pos, alignment, layer, color)

\* DrawingContext::get_width
get_width(ctx) == ctx.viewport.width

\* Canvas::draw_center_text: the width, a whole number, halves to a whole
\* number of half units
draw_center_text(font, text, position, layer, color) ==
  draw_text6("draw_center_text",
             [font |-> font, text |-> text, position |-> position, layer |-> layer,
              color |-> color],
             font, text,
             Vector(position[1] + Float(get_width(m_context)) \div 2, position[2]),
             "ALIGN_CENTER", layer, color)

GradientRequest(ctx, top, bottom, layer, direction, region, blend) ==
  [type |-> "GRADIENT",
   layer |-> layer,
   flip |-> ctx.flip,
   alpha |-> ctx.alpha,
   blend |-> blend,
   top |-> top,
   bottom |-> bottom,
   direction |-> direction,
   region |-> RectfCorners(apply_translate(ctx, region.p1),
                           apply_translate(ctx, region.p2))]

\* Canvas::draw_gradient
draw_gradient(top, bottom, layer, direction, region, blend) ==
  /\ Alive
  /\ Enqueue(GradientRequest(m_context, top, bottom, layer, direction, region, blend),
             "draw_gradient",
             [top |-> top, bottom |-> bottom, layer |-> layer, direction |-> direction,
              region |-> region, blend |-> blend])

\* the color stored as the caller passed it
KeepAlpha(ctx, color) == color

\* the color a request stores: the caller's, its alpha times the transform's
FoldAlpha(ctx, color) == [color EXCEPT !.alpha = AlphaMul(color.alpha, ctx.alpha)]

FillRectRequest(ctx, pos, size, color, radius, layer) ==
  [type |-> "FILLRECT",
   layer |-> layer,
   flip |-> ctx.flip,
   alpha |-> ctx.alpha,
   pos |-> apply_translate(ctx, pos),
   size |-> size,
   color |-> FoldAlpha(ctx, color),
   radius |-> radius]

\* Canvas::draw_filled_rect(topleft, size, color, layer)
draw_filled_rect_vec(topleft, size, color, layer) ==
  /\ Alive
  /\ Enqueue(FillRectRequest(m_context, topleft, size, color, 0, layer),
             "draw_filled_rect",
             [topleft |-> topleft, size |-> size, color |-> color, layer |-> layer])

draw_filled_rect4(op, rect, color, radius, layer) ==
  /\ Alive
  /\ Enqueue(FillRectRequest(m_context, rect.p1, Vector(rect_width(rect), rect_height(rect)),
                             color, radius, layer), op,
             [rect |-> rect, color |-> color, radius |-> radius, layer |-> layer])

\* Canvas::draw_filled_rect(rect, color, radius, layer)
draw_filled_rect_rounded(rect, color, radius, layer) ==
  draw_filled_rect4("draw_filled_rect", rect, color, radius, layer)

\* Canvas::draw_filled_rect(rect, color, layer)
draw_filled_rect(rect, color, layer) ==
  draw_filled_rect4("draw_filled_rect", rect, color, 0, layer)

InverseEllipseRequest(ctx, pos, size, color, layer) ==
  [type |-> "INVERSEELLIPSE",
   layer |-> layer,
   flip |-> ctx.flip,
   alpha |-> ctx.alpha,
   pos |-> apply_translate(ctx, pos),
   color |-> FoldAlpha(ctx, color),
   size |-> size]

\* Canvas::draw_inverse_ellipse
draw_inverse_ellipse(pos, size, color, layer) ==
  /\ Alive
  /\ Enqueue(InverseEllipseRequest(m_context, pos, size, color, layer),
             "draw_inverse_ellipse",
             [pos |-> pos, size |-> size, color |-> color, layer |-> layer])

LineRequest(ctx, pos1, pos2, color, layer) ==
  [type |-> "LINE",
   layer |-> layer,
   flip |-> ctx.flip,
   alpha |-> ctx.alpha,
   pos |-> apply_translate(ctx, pos1),
   color |-> FoldAlpha(ctx, color),
   dest_pos |-> apply_translate(ctx, pos2)]

\* Canvas::draw_line
draw_line(pos1, pos2, color, layer) ==
  /\ Alive
  /\ Enqueue(LineRequest(m_context, pos1, pos2, color, layer), "draw_line",
             [pos1 |-> pos1, pos2 |-> pos2, color |-> color, layer |-> layer])

TriangleRequest(ctx, pos1, pos2, pos3, color, layer) ==
  [type |-> "TRIANGLE",
   layer |-> layer,
   flip |-> ctx.flip,
   alpha |-> ctx.alpha,
   pos1 |-> apply_translate(ctx, pos1),
   pos2 |-> apply_translate(ctx, pos2),
   pos3 |-> apply_translate(ctx, pos3),
   color |-> FoldAlpha(ctx, color)]

\* Canvas::draw_triangle
draw_triangle(pos1, pos2, pos3, color, layer) ==
  /\ Alive
  /\ Enqueue(TriangleRequest(m_context, pos1, pos2, pos3, color, layer), "draw_triangle",
             [pos1 |-> pos1, pos2 |-> pos2, pos3 |-> pos3, color |-> color,
              layer |-> layer])

\* "There is no light offscreen.": the test of Canvas::get_pixel
Offscreen(viewport, pos) ==
  \/ pos[1] >= Float(viewport.width)
  \/ pos[2] >= Float(viewport.height)
  \/ pos[1] < 0
  \/ pos[2] < 0

\* GetPixelRequest::GetPixelRequest(): the tag of the variant
GetPixelRequest_type == "GETPIXEL"

\* new(m_obst) GetPixelRequest(): get_pixel sets every field but the tag
GetPixelRequest(pos, color_out) ==
  [type |-> GetPixelRequest_type,
   layer |-> LAYER_GETPIXEL,
   pos |-> pos,
   color_ptr |-> color_out]

\* Canvas::get_pixel
get_pixel(position, color_out) ==
  /\ Alive
  /\ LET pos == apply_translate(m_context, position)
         args == [position |-> position, color_out |-> color_out]
     IN  IF color_out = NullCell
         THEN Abort("get_pixel", args, "assert_failed")
         ELSE IF Offscreen(m_context.viewport, pos)
         THEN /\ cells' = [cells EXCEPT ![color_out] = Black]
              /\ ReturnEarly("get_pixel", args, "offscreen")
         ELSE /\ Enqueue(GetPixelRequest(pos, color_out), "get_pixel", args)

----------------------------------------------------------------------------
(* Canvas::render *)

Range(q) == {q[i] : i \in 1..Len(q)}

\* the comparator with its operands swapped
LayerGreater(r1, r2) == r2.layer < r1.layer

\* the comparator handed to std::stable_sort
LayerLess(r1, r2) == r1.layer < r2.layer

\* a sort that is not stable: p goes in front of the elements it ties with
UnstableInsert(q, p, obst) ==
  LET k == Cardinality({i \in 1..Len(q) : obst[q[i]].layer < obst[p].layer})
  IN  SubSeq(q, 1, k) \o <<p>> \o SubSeq(q, k + 1, Len(q))

\* p put into the sorted q behind every element that does not compare greater
StableInsert(q, p, obst) ==
  LET k == Cardinality({i \in 1..Len(q) : ~LayerLess(obst[p], obst[q[i]])})
  IN  SubSeq(q, 1, k) \o <<p>> \o SubSeq(q, k + 1, Len(q))

RECURSIVE SortPrefix(_, _, _)
SortPrefix(q, obst, n) ==
  IF n = 0 THEN <<>> ELSE StableInsert(SortPrefix(q, obst, n - 1), q[n], obst)

\* std::stable_sort(m_requests.begin(), m_requests.end(), comparator)
stable_sort(q, obst) == SortPrefix(q, obst, Len(q))

\* bands that take in the lightmap's own layer
FilteredLoose(filter, request) ==
  \/ filter = "BELOW_LIGHTMAP" /\ request.layer > LAYER_LIGHTMAP
  \/ filter = "ABOVE_LIGHTMAP" /\ request.layer < LAYER_LIGHTMAP

\* the two `continue' branches of the loop
Filtered(filter, request) ==
  \/ filter = "BELOW_LIGHTMAP" /\ request.layer >= LAYER_LIGHTMAP
  \/ filter = "ABOVE_LIGHTMAP" /\ request.layer <= LAYER_LIGHTMAP

\* a switch without the case of the pixel query
PainterMethodNoPixel(type) ==
  CASE type = "TEXTURE" -> "draw_texture"
    [] type = "GRADIENT" -> "draw_gradient"
    [] type = "FILLRECT" -> "draw_filled_rect"
    [] type = "INVERSEELLIPSE" -> "draw_inverse_ellipse"
    [] type = "LINE" -> "draw_line"
    [] type = "TRIANGLE" -> "draw_triangle"
    [] OTHER -> ""

\* switch (request.type): the Painter method of each case, "" when no case matches
PainterMethod(type) ==
  CASE type = "TEXTURE" -> "draw_texture"
    [] type = "GRADIENT" -> "draw_gradient"
    [] type = "FILLRECT" -> "draw_filled_rect"
    [] type = "INVERSEELLIPSE" -> "draw_inverse_ellipse"
    [] type = "LINE" -> "draw_line"
    [] type = "TRIANGLE" -> "draw_triangle"
    [] type = "GETPIXEL" -> "get_pixel"
    [] OTHER -> ""

\* a loop that ignores the filter
DispatchUnfiltered(q, obst, filter) ==
  SelectSeq(q, LAMBDA p : PainterMethod(obst[p].type) # "")

\* a loop that starts at the second request
DispatchFromSecond(q, obst, filter) ==
  SelectSeq(IF q = <<>> THEN q ELSE Tail(q),
            LAMBDA p : ~Filtered(filter, obst[p]) /\ PainterMethod(obst[p].type) # "")

\* the pointers of q, in order, for which the loop body reaches a Painter call
Dispatch(q, obst, filter) ==
  SelectSeq(q, LAMBDA p : ~Filtered(filter, obst[p]) /\ PainterMethod(obst[p].type) # "")

\* a dispatch that applies the transform of the current context once more
PainterCallRetranslated(p, obst) ==
  [method |-> PainterMethod(obst[p].type), ptr |-> p,
   request |-> IF "pos" \in DOMAIN obst[p]
               THEN [obst[p] EXCEPT !.pos = apply_translate(m_context, obst[p].pos)]
               ELSE obst[p]]

PainterCall(p, obst) ==
  [method |-> PainterMethod(obst[p].type), ptr |-> p, request |-> obst[p]]

\* the color Painter::get_pixel reads from the framebuffer
PixelColor == [rgb |-> <<1, 0, 0>>, alpha |-> AlphaOne]

\* Painter::get_pixel(request): *request.color_ptr = the pixel at request.pos
PainterWrites(shown, obst, c) ==
  \E i \in 1..Len(shown) :
     obst[shown[i]].type = "GETPIXEL" /\ obst[shown[i]].color_ptr = c

render(filter) ==
  /\ Alive
  /\ LET sorted == stable_sort(m_requests, m_obst)
         shown == Dispatch(sorted, m_obst, filter)
     IN  /\ m_requests' = sorted
         /\ painter_calls' = [i \in 1..Len(shown) |-> PainterCall(shown[i], m_obst)]
         /\ cells' = [c \in DOMAIN cells |->
                        IF PainterWrites(shown, m_obst, c) THEN PixelColor ELSE cells[c]]
         /\ visits' = [i \in 1..Len(visits) |->
                         IF i \in Range(sorted) THEN visits[i] + 1 ELSE visits[i]]
         /\ writes' = [i \in 1..Len(writes) |->
                         IF i \in Range(shown) /\ m_obst[i].type = "GETPIXEL"
                         THEN writes[i] + 1 ELSE writes[i]]
  /\ destructed' = <<>>
  /\ call' = Returned("render", [filter |-> filter], "returned")
  /\ UNCHANGED <<m_context, m_obst, alive>>

----------------------------------------------------------------------------
(* Canvas::clear, Canvas::~Canvas, Canvas::Canvas *)

\* the loop over the destructors without m_requests.clear()
ClearKeepsQueue(op) ==
  /\ destructed' = [i \in 1..Len(m_requests) |->
                      [ptr |-> m_requests[i],
                       type |-> m_obst[m_requests[i]].type,
                       visits |-> visits[m_requests[i]],
                       writes |-> writes[m_requests[i]]]]
  /\ m_obst' = [i \in 1..Len(m_obst) |->
                  IF i \in Range(m_requests) THEN Destructed ELSE m_obst[i]]
  /\ painter_calls' = <<>>
  /\ call' = Returned(op, NoArgs, "returned")
  /\ UNCHANGED <<m_context, m_requests, cells, visits, writes>>

\* m_requests.clear() without the loop over the destructors
ClearWithoutDestructors(op) ==
  /\ destructed' = <<>>
  /\ m_requests' = <<>>
  /\ painter_calls' = <<>>
  /\ call' = Returned(op, NoArgs, "returned")
  /\ UNCHANGED <<m_context, m_obst, cells, visits, writes>>

\* request->~DrawingRequest() for every queued request, then m_requests.clear()
Clear(op) ==
  /\ destructed' = [i \in 1..Len(m_requests) |->
                      [ptr |-> m_requests[i],
                       type |-> m_obst[m_requests[i]].type,
                       visits |-> visits[m_requests[i]],
                       writes |-> writes[m_requests[i]]]]
  /\ m_obst' = [i \in 1..Len(m_obst) |->
                  IF i \in Range(m_requests) THEN Destructed ELSE m_obst[i]]
  /\ visits' = [i \in 1..Len(visits) |-> IF i \in Range(m_requests) THEN 0 ELSE visits[i]]
  /\ writes' = [i \in 1..Len(writes) |->
                      IF i \in Range(m_requests) THEN 0 ELSE writes[i]]
  /\ m_requests' = <<>>
  /\ painter_calls' = <<>>
  /\ call' = Returned(op, NoArgs, "returned")
  /\ UNCHANGED <<m_context, cells>>

clear ==
  /\ Alive
  /\ Clear("clear")
  /\ UNCHANGED alive

\* Canvas::~Canvas
Canvas_dtor ==
  /\ Alive
  /\ Clear("~Canvas")
  /\ alive' = FALSE

\* Canvas::Canvas(context, obst): a canvas on the same context and obstack
Canvas_ctor ==
  /\ ~Alive
  /\ alive' = TRUE
  /\ m_requests' = <<>>
  /\ painter_calls' = <<>>
  /\ destructed' = <<>>
  /\ call' = Returned("Canvas", NoArgs, "returned")
  /\ UNCHANGED <<m_context, m_obst, cells, visits, writes>>

----------------------------------------------------------------------------
(* The collaborators: the DrawingContext changes its transform, viewport   *)
(* and clip rectangle, and frees the obstack once no request lives in it.  *)

set_context(ctx) ==
  /\ ctx # m_context
  /\ m_context' = ctx
  /\ painter_calls' = <<>>
  /\ destructed' = <<>>
  /\ call' = Returned("set_context", NoArgs, "returned")
  /\ UNCHANGED <<m_obst, m_requests, cells, visits, writes, alive>>

obstack_free ==
  /\ m_requests = <<>>
  /\ m_obst # <<>>
  /\ m_obst' = <<>>
  /\ visits' = <<>>
  /\ writes' = <<>>
  /\ painter_calls' = <<>>
  /\ destructed' = <<>>
  /\ call' = Returned("obstack_free", NoArgs, "returned")
  /\ UNCHANGED <<m_context, m_requests, cells, alive>>

----------------------------------------------------------------------------
(* The inputs the operations are called with *)

\* layers below, at and above the lightmap's; LAYER_GETPIXEL lies above them
Layers == {LAYER_LIGHTMAP - 1, LAYER_LIGHTMAP, LAYER_LIGHTMAP + 1}

\* a position inside the clip rectangle and the viewport, and one outside
\* (0, 0) and (3, 1)
Inside == Vector(0, 0)
Outside == Vector(6, 2)
Positions == {Inside, Outside}

\* one unit wide and high
Size == Vector(2, 2)

\* the region of a surface in its texture: a Rect of whole units
Region == [p1 |-> <<0, 0>>, p2 |-> <<1, 1>>]

Colors == {White}

Surfaces == {[width |-> 1, height |-> 1, flip |-> 0, texture |-> "tex",
              displacement_texture |-> "none",
              region |-> Region]}

Styles == {[alpha |-> AlphaOne, blend |-> "Blend()", color |-> White]}

\* source and destination rectangles of a batch: as many of each, or not
Batches == {<< <<RectfSize(Inside, Size)>>, <<RectfSize(Inside, Size)>> >>,
            << <<RectfSize(Inside, Size)>>, <<>> >>}

CellIds == {1}

Viewport(left, top) == [left |-> left, top |-> top, width |-> 2, height |-> 2]

\* the clip rectangle from (0, 0) to (2, 2)
Cliprect == [left |-> 0, top |-> 0, right |-> 4, bottom |-> 4]

Context(translation, viewport) ==
  [translation |-> translation, flip |-> 0, alpha |-> AlphaOne,
   viewport |-> viewport, cliprect |-> Cliprect]

\* the context a canvas starts with
Context0 == Context(Vector(0, 0), Viewport(0, 0))

\* a scroll by half a unit: the whole part of the translation stays
FrameContexts == {Context0, Context(Vector(1, 1), Viewport(0, 0))}

\* scrolled by (2.5, -2.5), and a viewport that does not start at the origin
GeomContexts == {Context0, Context(Vector(5, -5), Viewport(0, 0)),
                 Context(Vector(0, 0), Viewport(2, 0))}

\* a font with the one surface for its glyphs, and a text of two characters
Fonts == {[glyphs |-> s] : s \in Surfaces}
Text == <<"o", "k">>

\* the references a caller may pass: one that holds an object, or none
SurfacePtrs == Surfaces \cup {nullptr}
FontPtrs == Fonts \cup {nullptr}
ColorPtrs == CellIds \cup {NullCell}

\* contexts that differ in translation, viewport origin, flip and alpha:
\* scrolled by (2.5, -2.5) with flip 1 and alpha 0.25, and scrolled by
\* (-1.5, 1) with the viewport at (0, 1) and flip 3
FieldContexts ==
  {Context0,
   [Context(Vector(5, -5), Viewport(0, 0)) EXCEPT !.flip = 1, !.alpha = Alpha(1, 2)],
   [Context(Vector(-3, 2), Viewport(0, 1)) EXCEPT !.flip = 3]}

\* surfaces flipped one way and the other
FieldSurfaces ==
  {[width |-> 1, height |-> 1, flip |-> f, texture |-> "tex",
    displacement_texture |-> "none",
    region |-> Region] : f \in {1, 2}}

\* an opaque color and one of alpha 0.5
HalfWhite == [rgb |-> <<1, 1, 1>>, alpha |-> Alpha(1, 1)]
FieldColors == {White, HalfWhite}

FieldStyles == {[alpha |-> Alpha(3, 2), blend |-> "Blend()", color |-> HalfWhite]}

----------------------------------------------------------------------------
(* The specifications *)

Init ==
  /\ m_context = Context0
  /\ m_obst = <<>>
  /\ m_requests = <<>>
  /\ cells = [c \in CellIds |-> White]
  /\ painter_calls = <<>>
  /\ destructed = <<>>
  /\ visits = <<>>
  /\ writes = <<>>
  /\ alive = TRUE
  /\ call = Returned("Canvas", NoArgs, "returned")

\* the program is started again after it was ended by Abort
Restart ==
  /\ ~Alive
  /\ call.outcome \in {"assert_failed", "segfault"}
  /\ m_context' = Context0
  /\ m_obst' = <<>>
  /\ m_requests' = <<>>
  /\ cells' = [c \in DOMAIN cells |-> White]
  /\ painter_calls' = <<>>
  /\ destructed' = <<>>
  /\ visits' = <<>>
  /\ writes' = <<>>
  /\ alive' = TRUE
  /\ call' = Returned("Canvas", NoArgs, "returned")

\* the obstack has room for one more object
Room(n) == Len(m_obst) < n

\* no queued request has been through MaxPasses render passes
MayRender == \A i \in 1..Len(m_requests) : visits[m_requests[i]] < MaxPasses

\* the layer of the requests of Spec and SpecGeom, below the lightmap's
Below == LAYER_LIGHTMAP - 1

\* Spec: every operation of the canvas, on one layer
Next ==
  \/ Room(MaxAlloc) /\ \E s \in Surfaces, p \in Positions, c \in Colors :
        draw_surface(s, p, 0, c, "Blend()", Below)
  \/ Room(MaxAlloc) /\ \E s \in Surfaces, p \in Positions :
        draw_surface_simple(s, p, Below)
  \/ Room(MaxAlloc) /\ \E s \in Surfaces, p \in Positions, st \in Styles :
        draw_surface_scaled(s, RectfSize(p, Size), Below, st)
  \/ Room(MaxAlloc) /\ \E s \in Surfaces, p \in Positions, st \in Styles :
        draw_surface_part(s, Rectf(s.region), RectfSize(p, Size), Below, st)
  \/ Room(MaxAlloc) /\ \E s \in Surfaces, b \in Batches, c \in Colors :
        draw_surface_batch(s, b[1], b[2], c, Below)
  \/ Room(MaxAlloc) /\ \E c \in Colors :
        draw_gradient(c, c, Below, "VERTICAL", RectfSize(Inside, Size), "Blend()")
  \/ Room(MaxAlloc) /\ \E c \in Colors : draw_filled_rect_vec(Inside, Size, c, Below)
  \/ Room(MaxAlloc) /\ \E c \in Colors : draw_filled_rect(RectfSize(Inside, Size), c, Below)
  \/ Room(MaxAlloc) /\ \E c \in Colors :
        draw_filled_rect_rounded(RectfSize(Inside, Size), c, 2, Below)
  \/ Room(MaxAlloc) /\ \E c \in Colors : draw_inverse_ellipse(Inside, Size, c, Below)
  \/ Room(MaxAlloc) /\ \E c \in Colors : draw_line(Inside, Outside, c, Below)
  \/ Room(MaxAlloc) /\ \E c \in Colors : draw_triangle(Inside, Outside, Inside, c, Below)
  \/ Room(MaxAlloc) /\ \E p \in Positions, c \in CellIds : get_pixel(p, c)
  \/ MayRender /\ \E f \in Filters : render(f)
  \/ clear
  \/ Canvas_dtor
  \/ Canvas_ctor
  \/ \E ctx \in FrameContexts : set_context(ctx)
  \/ obstack_free

Spec == Init /\ [][Next]_vars

\* SpecOrder: requests on every layer, sorted and dispatched
NextOrder ==
  \/ Room(MaxQueue) /\ \E l \in Layers : draw_filled_rect(RectfSize(Inside, Size), White, l)
  \/ Room(MaxQueue) /\ \E s \in Surfaces, l \in Layers : draw_surface_simple(s, Inside, l)
  \/ Room(MaxQueue) /\ \E c \in CellIds : get_pixel(Inside, c)
  \/ MayRender /\ \E f \in Filters : render(f)
  \/ clear
  \/ obstack_free

SpecOrder == Init /\ [][NextOrder]_vars

\* SpecGeom: positions and contexts that clip, scroll and move the viewport
NextGeom ==
  \/ Room(MaxAlloc) /\ \E s \in Surfaces, p \in Positions :
        draw_surface(s, p, 0, White, "Blend()", Below)
  \/ Room(MaxAlloc) /\ \E s \in Surfaces, p \in Positions, st \in Styles :
        draw_surface_scaled(s, RectfSize(p, Size), Below, st)
  \/ Room(MaxAlloc) /\ \E s \in Surfaces, p \in Positions, st \in Styles :
        draw_surface_part(s, Rectf(s.region), RectfSize(p, Size), Below, st)
  \/ Room(MaxAlloc) /\ \E s \in Surfaces, p \in Positions :
        draw_surface_batch(s, <<Rectf(s.region)>>, <<RectfSize(p, Size)>>, White, Below)
  \/ Room(MaxAlloc) /\ \E p \in Positions : draw_line(p, Inside, White, Below)
  \/ Room(MaxAlloc) /\ \E p \in Positions, c \in CellIds : get_pixel(p, c)
  \/ MayRender /\ render("ALL")
  \/ clear
  \/ \E ctx \in GeomContexts : set_context(ctx)
  \/ obstack_free

SpecGeom == Init /\ [][NextGeom]_vars

\* SpecFields: every draw operation under contexts, surfaces and colors that
\* differ in translation, viewport, flip and alpha
NextFields ==
  \/ Room(MaxFields) /\ \E s \in FieldSurfaces, c \in FieldColors :
        draw_surface(s, Inside, 0, c, "Blend()", Below)
  \/ Room(MaxFields) /\ \E s \in FieldSurfaces : draw_surface_simple(s, Inside, Below)
  \/ Room(MaxFields) /\ \E s \in FieldSurfaces, st \in FieldStyles :
        draw_surface_scaled(s, RectfSize(Outside, Size), Below, st)
  \/ Room(MaxFields) /\ \E s \in FieldSurfaces, st \in FieldStyles :
        draw_surface_part(s, Rectf(s.region), RectfSize(Inside, Size), Below, st)
  \/ Room(MaxFields) /\ \E s \in FieldSurfaces, c \in FieldColors :
        draw_surface_batch(s, <<Rectf(s.region), Rectf(s.region)>>,
                           <<RectfSize(Inside, Size), RectfSize(Outside, Size)>>, c, Below)
  \/ Room(MaxFields) /\ \E c \in FieldColors :
        draw_gradient(c, White, Below, "VERTICAL", RectfCorners(Inside, Outside), "Blend()")
  \/ Room(MaxFields) /\ \E c \in FieldColors : draw_filled_rect_vec(Outside, Size, c, Below)
  \/ Room(MaxFields) /\ \E c \in FieldColors :
        draw_filled_rect(RectfSize(Inside, Size), c, Below)
  \/ Room(MaxFields) /\ \E c \in FieldColors :
        draw_filled_rect_rounded(RectfSize(Outside, Size), c, 2, Below)
  \/ Room(MaxFields) /\ \E c \in FieldColors : draw_inverse_ellipse(Outside, Size, c, Below)
  \/ Room(MaxFields) /\ \E c \in FieldColors : draw_line(Inside, Outside, c, Below)
  \/ Room(MaxFields) /\ \E c \in FieldColors :
        draw_triangle(Inside, Outside, Vector(1, 2), c, Below)
  \/ Room(MaxFields) /\ \E p \in Positions, c \in CellIds : get_pixel(p, c)
  \/ MayRender /\ render("ALL")
  \/ clear
  \/ \E ctx \in FieldContexts : set_context(ctx)
  \/ obstack_free

SpecFields == Init /\ [][NextFields]_vars

\* SpecNull: the operations that take a reference, called with and without one
NextNull ==
  \/ Room(MaxAlloc) /\ \E s \in SurfacePtrs, p \in Positions :
        draw_surface(s, p, 0, White, "Blend()", Below)
  \/ Room(MaxAlloc) /\ \E s \in SurfacePtrs : draw_surface_simple(s, Inside, Below)
  \/ Room(MaxAlloc) /\ \E s \in SurfacePtrs, st \in Styles :
        draw_surface_scaled(s, RectfSize(Inside, Size), Below, st)
  \/ Room(MaxAlloc) /\ \E s \in SurfacePtrs, st \in Styles :
        draw_surface_part(s, RectfSize(Inside, Size), RectfSize(Inside, Size), Below, st)
  \/ Room(MaxAlloc) /\ \E s \in SurfacePtrs :
        draw_surface_batch(s, <<RectfSize(Inside, Size)>>, <<RectfSize(Inside, Size)>>,
                           White, Below)
  \/ Room(MaxAlloc) /\ \E f \in FontPtrs, a \in {"ALIGN_LEFT", "ALIGN_RIGHT"} :
        draw_text(f, Text, Inside, a, Below, White)
  \/ Room(MaxAlloc) /\ \E f \in FontPtrs : draw_center_text(f, Text, Inside, Below, White)
  \/ Room(MaxAlloc) /\ \E c \in ColorPtrs : get_pixel(Inside, c)
  \/ MayRender /\ render("ALL")
  \/ clear
  \/ Restart

SpecNull == Init /\ [][NextNull]_vars

----------------------------------------------------------------------------
(* Properties of the render pass: SpecOrder *)

\* Requests are allocated and enqueued in one step, so a pointer is smaller
\* than another exactly when its request was submitted earlier.
SubmittedBefore(p1, p2) == p1 < p2

\* C1: in every render pass, two requests with equal layer are dispatched to
\* the Painter in the order in which they were submitted, also when an
\* earlier render pass has already sorted part of the queue.
C1_EqualLayerInSubmissionOrder ==
  \A i, j \in 1..Len(painter_calls) :
     (i < j /\ painter_calls[i].request.layer = painter_calls[j].request.layer)
        => SubmittedBefore(painter_calls[i].ptr, painter_calls[j].ptr)

\* a second render pass dispatched, behind a request of a lower layer that was
\* submitted later, two requests of one layer of which the first had been
\* sorted by the earlier pass and the second was submitted after it
C1_Witness ==
  /\ call.op = "render"
  /\ Len(painter_calls) = 3
  /\ painter_calls[1].ptr > painter_calls[2].ptr
  /\ painter_calls[1].request.layer < painter_calls[2].request.layer
  /\ painter_calls[2].request.layer = painter_calls[3].request.layer
  /\ visits[painter_calls[2].ptr] = 2
  /\ visits[painter_calls[3].ptr] = 1

\* C2: in every render pass the layers of the dispatched requests are
\* non-decreasing: a request of a lower layer is dispatched before one of a
\* higher layer, whatever the order of submission.
C2_LayersAscending ==
  \A i, j \in 1..Len(painter_calls) :
     painter_calls[i].request.layer < painter_calls[j].request.layer => i < j

\* a pass dispatched a request before one that was submitted earlier on a
\* higher layer
C2_Witness ==
  /\ call.op = "render"
  /\ \E i, j \in 1..Len(painter_calls) :
        /\ i < j
        /\ painter_calls[i].request.layer < painter_calls[j].request.layer
        /\ SubmittedBefore(painter_calls[j].ptr, painter_calls[i].ptr)

----------------------------------------------------------------------------
(* Properties of the geometry: SpecGeom *)

\* C3: once a request is enqueued its object never changes while it is
\* queued, whatever the context does in between, and every Painter call of a
\* render pass receives the object as it was stored: render applies no
\* transform to it.
C3_CoordinatesKept ==
  [][ /\ \A p \in Range(m_requests) \cap Range(m_requests') : m_obst'[p] = m_obst[p]
      /\ \A i \in 1..Len(painter_calls') :
            painter_calls'[i].request = m_obst[painter_calls'[i].ptr] ]_vars

\* a render pass under a context that maps Inside elsewhere handed the
\* Painter a line that was enqueued under the first context
C3_Witness ==
  /\ call.op = "render"
  /\ apply_translate(m_context, Inside) # apply_translate(Context0, Inside)
  /\ \E i \in 1..Len(painter_calls) :
        /\ painter_calls[i].request.type = "LINE"
        /\ painter_calls[i].request.pos = apply_translate(Context0, Inside)

\* the box of the given size at p1 shares no point with the rectangle
FullyOutside(rect, p1, size) ==
  \/ p1[1] > rect.right
  \/ p1[2] > rect.bottom
  \/ p1[1] + size[1] < rect.left
  \/ p1[2] + size[2] < rect.top

SurfaceFamily == {"draw_surface", "draw_surface_scaled", "draw_surface_part",
                  "draw_surface_batch"}

\* the position and the size of the box an operation of the family is to paint
\* (of a batch: of its rectangle i)
FamilyBox(c, i) ==
  CASE c.op = "draw_surface" ->
         <<c.args.position,
           Vector(Float(c.args.surface.width), Float(c.args.surface.height))>>
    [] c.op \in {"draw_surface_scaled", "draw_surface_part"} ->
         <<c.args.dstrect.p1, get_size(c.args.dstrect)>>
    [] c.op = "draw_surface_batch" ->
         <<c.args.dstrects[i].p1, get_size(c.args.dstrects[i])>>

FamilyBoxes(c) ==
  IF c.op = "draw_surface_batch" THEN 1..Len(c.args.dstrects) ELSE {1}

\* C4 as the spec states it: an operation of the draw_surface family whose
\* box in device space (the position after the coordinate transform, plus the
\* size) lies fully outside the clip rectangle allocates and enqueues nothing.
C4_FamilyRejectsClipped ==
  [][ (/\ call'.op \in SurfaceFamily
       /\ FamilyBoxes(call') # {}
       /\ \A i \in FamilyBoxes(call') :
             FullyOutside(m_context.cliprect,
                          apply_translate(m_context, FamilyBox(call', i)[1]),
                          FamilyBox(call', i)[2]))
      => UNCHANGED <<m_requests, m_obst>> ]_vars

\* C4 amended: draw_surface allocates and enqueues nothing exactly when the
\* box at the position as the caller passed it, before the coordinate
\* transform, lies fully outside the clip rectangle; draw_surface_scaled,
\* draw_surface_part and draw_surface_batch make no clip test and always
\* allocate and enqueue one request.
C4_OnlyDrawSurfaceClips ==
  [][ call'.op \in SurfaceFamily =>
        IF /\ call'.op = "draw_surface"
           /\ FullyOutside(m_context.cliprect, FamilyBox(call', 1)[1], FamilyBox(call', 1)[2])
        THEN UNCHANGED <<m_requests, m_obst>>
        ELSE /\ Len(m_obst') = Len(m_obst) + 1
             /\ m_requests' = Append(m_requests, Len(m_obst'))
             /\ m_obst'[Len(m_obst')].type = "TEXTURE" ]_vars

\* draw_surface returned early on a surface outside the clip rectangle, and
\* left the one request of the queue alone
C4_Witness ==
  /\ call.op = "draw_surface"
  /\ FullyOutside(m_context.cliprect, call.args.position,
                  Vector(Float(call.args.surface.width), Float(call.args.surface.height)))
  /\ Len(m_requests) = 1
  /\ Len(m_obst) = 1

\* the position lies outside the viewport rectangle, whose origin is
\* (left, top) in the device space apply_translate maps into
OutsideViewport(viewport, pos) ==
  \/ pos[1] < Float(viewport.left)
  \/ pos[1] >= Float(viewport.left + viewport.width)
  \/ pos[2] < Float(viewport.top)
  \/ pos[2] >= Float(viewport.top + viewport.height)

\* C6: a pixel query whose transformed position lies outside the viewport
\* rectangle, wherever the viewport starts, writes opaque black to its cell
\* at once and enqueues nothing; one whose transformed position lies inside
\* enqueues exactly one GetPixelRequest and leaves the cell alone.
C6_PixelQueryByViewportRect ==
  [][ call'.op = "get_pixel" =>
        IF OutsideViewport(m_context.viewport,
                           apply_translate(m_context, call'.args.position))
        THEN /\ cells'[call'.args.color_out] = Black
             /\ UNCHANGED <<m_requests, m_obst>>
        ELSE /\ Len(m_obst') = Len(m_obst) + 1
             /\ m_requests' = Append(m_requests, Len(m_obst'))
             /\ m_obst'[Len(m_obst')].type = "GETPIXEL"
             /\ cells' = cells ]_vars

----------------------------------------------------------------------------
(* Properties of the frame: Spec *)

\* C5: every texture request in the queue has as many source as destination
\* rectangles, because draw_surface_batch rejects sequences of different
\* lengths and enqueues nothing for them.
C5_BatchLengthsAgree ==
  \A i \in 1..Len(m_requests) :
     m_obst[m_requests[i]].type = "TEXTURE"
        => Len(m_obst[m_requests[i]].srcrects) = Len(m_obst[m_requests[i]].dstrects)

\* C7 as the spec states it: the cell of a GetPixelRequest has been written
\* by the Painter exactly once when clear() or ~Canvas destructs the request.
C7_WrittenOnceBeforeClear ==
  \A i \in 1..Len(destructed) :
     destructed[i].type = "GETPIXEL" => destructed[i].writes = 1

\* a render pass with this filter reaches the Painter call of a pixel query
AdmitsPixelQuery(filter) ==
  /\ ~(filter = "BELOW_LIGHTMAP" /\ LAYER_GETPIXEL >= LAYER_LIGHTMAP)
  /\ ~(filter = "ABOVE_LIGHTMAP" /\ LAYER_GETPIXEL <= LAYER_LIGHTMAP)

\* the Painter calls of the last operation made for the object at p
CallsFor(calls, p) == Cardinality({i \in 1..Len(calls) : calls[i].ptr = p})

\* the Painter get_pixel calls of the last operation made for the object at
\* p, each naming the cell the request at p holds
PixelCallsFor(calls, p, obst) ==
  Cardinality({i \in 1..Len(calls) :
                 /\ calls[i].ptr = p
                 /\ calls[i].method = "get_pixel"
                 /\ calls[i].request.color_ptr = obst[p].color_ptr})

\* C7 amended: for every queued GetPixelRequest, a render pass whose filter
\* admits LAYER_GETPIXEL makes exactly one Painter get_pixel call for it, and
\* the cell it names holds the pixel the Painter read when the pass returns;
\* a pass whose filter excludes the layer makes no Painter call for it and
\* leaves every cell as it was; no other operation makes a Painter call.  The
\* count of the Painter's writes for the request, handed on to the destructor
\* by clear() and ~Canvas, grows by those calls and by nothing else: it is
\* the number of admitting passes, which may be none or several.
C7_WrittenOncePerAdmittingPass ==
  [][ /\ (call'.op = "render" /\ ~AdmitsPixelQuery(call'.args.filter)) => cells' = cells
      /\ \A p \in Range(m_requests) :
           m_obst[p].type = "GETPIXEL" =>
             /\ PixelCallsFor(painter_calls', p, m_obst)
                  = IF call'.op = "render" /\ AdmitsPixelQuery(call'.args.filter)
                    THEN 1 ELSE 0
             /\ CallsFor(painter_calls', p) = PixelCallsFor(painter_calls', p, m_obst)
             /\ PixelCallsFor(painter_calls', p, m_obst) = 1
                   => cells'[m_obst[p].color_ptr] = PixelColor
             /\ IF p \in Range(m_requests')
                THEN writes'[p] = writes[p] + PixelCallsFor(painter_calls', p, m_obst)
                ELSE \E i \in 1..Len(destructed') :
                        /\ destructed'[i].ptr = p
                        /\ destructed'[i].writes = writes[p] ]_vars

\* a second admitting render pass has made a Painter call for a queued pixel
\* query again, and the cell holds the pixel read
C7_Witness ==
  /\ call.op = "render"
  /\ AdmitsPixelQuery(call.args.filter)
  /\ \E p \in Range(m_requests) :
        /\ m_obst[p].type = "GETPIXEL"
        /\ visits[p] = 2
        /\ writes[p] = 2
        /\ PixelCallsFor(painter_calls, p, m_obst) = 1
        /\ cells[m_obst[p].color_ptr] = PixelColor

\* C8 as the spec states it: clear() destructs every queued request, leaves
\* the queue empty and resets the Frame Arena.
C8_ClearResetsArena ==
  call.op = "clear" =>
    /\ Len(m_requests) = 0
    /\ \A i \in 1..Len(destructed) : m_obst[destructed[i].ptr] = Destructed
    /\ Len(m_obst) = 0

\* C8 amended: clear() invokes the destructor of every queued request, once
\* each, and leaves the queue with length 0, so that no request of the frame
\* is referenced by it; it leaves the obstack as it is: the objects stay
\* allocated until the owner of the obstack frees it.
C8_ClearDestructsAndEmpties ==
  [][ call'.op = "clear" =>
        /\ [i \in 1..Len(destructed') |-> destructed'[i].ptr] = m_requests
        /\ \A p \in Range(m_requests) : m_obst[p] # Destructed /\ m_obst'[p] = Destructed
        /\ m_requests' = <<>>
        /\ Len(m_obst') = Len(m_obst)
        /\ \A p \in 1..Len(m_obst) : p \notin Range(m_requests) => m_obst'[p] = m_obst[p] ]_vars

\* clear() ran on a queue of two requests
C8_Witness ==
  /\ call.op = "clear"
  /\ Len(destructed) = 2
  /\ Len(m_obst) = 2
  /\ m_requests = <<>>

\* C9 as the spec states it: a request that clear() or ~Canvas removes has
\* been visited by at least one render pass.
C9_FlushedBeforeClear ==
  \A i \in 1..Len(destructed) : destructed[i].visits >= 1

\* the filter of a render pass skips a request of this layer
SkipsLayer(filter, layer) ==
  \/ filter = "BELOW_LIGHTMAP" /\ layer >= LAYER_LIGHTMAP
  \/ filter = "ABOVE_LIGHTMAP" /\ layer <= LAYER_LIGHTMAP

\* C9 amended: a render pass visits every request that is in the queue when
\* it runs, and either dispatches it to the Painter, once, or skips it by
\* the layer filter; clear() and ~Canvas remove whatever is queued, visited
\* or not.
C9_RenderVisitsEveryRequest ==
  [][ call'.op = "render" =>
        \A p \in Range(m_requests) :
           /\ visits'[p] = visits[p] + 1
           /\ CallsFor(painter_calls', p)
                = IF SkipsLayer(call'.args.filter, m_obst[p].layer) THEN 0 ELSE 1 ]_vars

\* a render pass dispatched one of two queued requests and skipped the other
C9_Witness ==
  /\ call.op = "render"
  /\ Len(m_requests) = 2
  /\ Len(painter_calls) = 1
  /\ \A p \in Range(m_requests) : visits[p] >= 1

DrawOps == {"draw_surface", "draw_surface_scaled", "draw_surface_part",
            "draw_surface_batch", "draw_gradient", "draw_filled_rect",
            "draw_inverse_ellipse", "draw_line", "draw_triangle", "get_pixel"}

\* C10: a draw operation either returns early, which only draw_surface (on a
\* clipped surface) and get_pixel (off the viewport) do, or appends exactly
\* one request to the end of the queue and leaves the requests queued before
\* unchanged; it makes no Painter call: those occur in render alone.
C10_DrawAppendsOne ==
  [][ /\ call'.op \in DrawOps =>
           /\ painter_calls' = <<>>
           /\ \/ /\ call'.op = "draw_surface"
                 /\ FullyOutside(m_context.cliprect, call'.args.position,
                                 Vector(Float(call'.args.surface.width),
                                        Float(call'.args.surface.height)))
                 /\ UNCHANGED <<m_requests, m_obst>>
              \/ /\ call'.op = "get_pixel"
                 /\ cells'[call'.args.color_out] = Black
                 /\ UNCHANGED <<m_requests, m_obst>>
              \/ /\ Len(m_requests') = Len(m_requests) + 1
                 /\ SubSeq(m_requests', 1, Len(m_requests)) = m_requests
                 /\ m_requests'[Len(m_requests')] \notin Range(m_requests)
                 /\ \A p \in Range(m_requests) : m_obst'[p] = m_obst[p]
      /\ painter_calls' # <<>> => call'.op = "render" ]_vars

\* a draw operation appended a third kind of request behind two others
C10_Witness ==
  /\ call.op = "draw_triangle"
  /\ Len(m_requests) = 2
  /\ m_obst[m_requests[1]].type = "GRADIENT"
  /\ m_obst[m_requests[2]].type = "TRIANGLE"

----------------------------------------------------------------------------
(* Properties of the dispatch: Spec *)

\* the concrete variant of a request object, told by the fields it holds
Variant(request) ==
  CASE "color_ptr" \in DOMAIN request -> "GETPIXEL"
    [] "srcrects" \in DOMAIN request -> "TEXTURE"
    [] "direction" \in DOMAIN request -> "GRADIENT"
    [] "radius" \in DOMAIN request -> "FILLRECT"
    [] "dest_pos" \in DOMAIN request -> "LINE"
    [] "pos3" \in DOMAIN request -> "TRIANGLE"
    [] "size" \in DOMAIN request -> "INVERSEELLIPSE"
    [] OTHER -> "NONE"

\* the Painter operation that corresponds to each tag
Corresponding ==
  [TEXTURE |-> "draw_texture", GRADIENT |-> "draw_gradient",
   FILLRECT |-> "draw_filled_rect", INVERSEELLIPSE |-> "draw_inverse_ellipse",
   LINE |-> "draw_line", TRIANGLE |-> "draw_triangle", GETPIXEL |-> "get_pixel"]

\* C11: every queued request carries a tag of the closed set, the tag of its
\* concrete variant; and a render pass makes, for every queued request its
\* filter lets through, exactly one Painter call, the operation that
\* corresponds to the tag, and no call for any other request.
C11_DispatchByTag ==
  [][ /\ \A p \in Range(m_requests') :
            /\ m_obst'[p].type \in DOMAIN Corresponding
            /\ m_obst'[p].type = Variant(m_obst'[p])
      /\ call'.op = "render" =>
            /\ \A p \in Range(m_requests) :
                  ~SkipsLayer(call'.args.filter, m_obst[p].layer) =>
                     /\ CallsFor(painter_calls', p) = 1
                     /\ \A i \in 1..Len(painter_calls') :
                           painter_calls'[i].ptr = p =>
                              painter_calls'[i].method = Corresponding[m_obst[p].type]
            /\ \A i \in 1..Len(painter_calls') :
                  painter_calls'[i].ptr \in Range(m_requests) ]_vars

\* a render pass called Painter::get_pixel for the request built by get_pixel
\* and Painter::draw_triangle for a triangle
C11_Witness ==
  /\ call.op = "render"
  /\ Len(painter_calls) = 2
  /\ painter_calls[1].method = "draw_triangle"
  /\ painter_calls[1].request.type = "TRIANGLE"
  /\ painter_calls[2].method = "get_pixel"
  /\ painter_calls[2].request.type = "GETPIXEL"

\* a render pass has run and clear() has not yet followed it: the last
\* operation was a render pass, or a queued request has been through one
Flushing == call.op = "render" \/ \E p \in Range(m_requests) : visits[p] >= 1

\* C12 as the spec states it: between a render pass and the following
\* clear() the canvas accepts no draw call, so that no request is appended to
\* the queue.
C12_NoAppendWhileFlushing ==
  [][ Flushing => Len(m_requests') <= Len(m_requests) ]_vars

\* the draw operation returns before it allocates: draw_surface on a clipped
\* surface, get_pixel off the viewport
ReturnsEarly(c) ==
  \/ /\ c.op = "draw_surface"
     /\ FullyOutside(m_context.cliprect, c.args.position,
                     Vector(Float(c.args.surface.width), Float(c.args.surface.height)))
  \/ /\ c.op = "get_pixel"
     /\ Offscreen(m_context.viewport, apply_translate(m_context, c.args.position))

\* C12 amended: the canvas keeps no state besides its queue.  A draw call
\* made after a render pass and before clear() is accepted like any other:
\* unless it returns early its request is appended behind the requests the
\* pass has visited, and the next render pass dispatches the late request
\* together with them.
C12_DrawAcceptedAfterRender ==
  [][ /\ (Flushing /\ call'.op \in DrawOps /\ ~ReturnsEarly(call')) =>
            /\ m_requests' = Append(m_requests, Len(m_obst) + 1)
            /\ visits'[Len(m_obst) + 1] = 0
      /\ call'.op = "render" =>
            \A p, q \in Range(m_requests) :
               (/\ visits[p] >= 1
                /\ visits[q] = 0
                /\ ~SkipsLayer(call'.args.filter, m_obst[p].layer)
                /\ ~SkipsLayer(call'.args.filter, m_obst[q].layer)) =>
                  CallsFor(painter_calls', p) = 1 /\ CallsFor(painter_calls', q) = 1 ]_vars

\* a render pass dispatched a request submitted after the pass before it,
\* together with a request that pass had visited
C12_Witness ==
  /\ call.op = "render"
  /\ Len(painter_calls) = 2
  /\ visits[painter_calls[1].ptr] = 2
  /\ visits[painter_calls[2].ptr] = 1

----------------------------------------------------------------------------
(* Properties of the fields of a request: SpecFields *)

\* the last step allocated an object: the newest of the obstack
Allocated == Len(m_obst') = Len(m_obst) + 1
NewRequest == m_obst'[Len(m_obst')]

\* floor of a length: the greatest whole number of units, which is an even
\* number of half units, that is not above it
Floor(t) == CHOOSE f \in -16..16 : f % 2 = 0 /\ f <= t /\ t < f + 2

\* device_pos = (world_pos - floor(translation)) + viewport.top_left
DevicePos(ctx, pos) ==
  <<(pos[1] - Floor(ctx.translation[1])) + 2 * ctx.viewport.left,
    (pos[2] - Floor(ctx.translation[2])) + 2 * ctx.viewport.top>>

\* the rectangle moved to the device position of its origin, its size kept
DeviceRect(ctx, rect) ==
  [p1 |-> DevicePos(ctx, rect.p1),
   p2 |-> <<DevicePos(ctx, rect.p1)[1] + (rect.p2[1] - rect.p1[1]),
            DevicePos(ctx, rect.p1)[2] + (rect.p2[2] - rect.p1[2])>>]

\* the positional fields of the request r that the call c, made under ctx,
\* is to store
PositionsBaked(ctx, c, r) ==
  CASE c.op = "draw_surface" ->
         r.dstrects = <<DeviceRect(ctx, [p1 |-> c.args.position,
                                         p2 |-> <<c.args.position[1]
                                                    + 2 * c.args.surface.width,
                                                  c.args.position[2]
                                                    + 2 * c.args.surface.height>>])>>
    [] c.op \in {"draw_surface_scaled", "draw_surface_part"} ->
         r.dstrects = <<DeviceRect(ctx, c.args.dstrect)>>
    [] c.op = "draw_surface_batch" ->
         /\ Len(r.dstrects) = Len(c.args.dstrects)
         /\ \A i \in 1..Len(r.dstrects) : r.dstrects[i] = DeviceRect(ctx, c.args.dstrects[i])
    [] c.op = "draw_gradient" ->
         r.region = [p1 |-> DevicePos(ctx, c.args.region.p1),
                     p2 |-> DevicePos(ctx, c.args.region.p2)]
    [] c.op = "draw_filled_rect" ->
         IF "rect" \in DOMAIN c.args
         THEN r.pos = DevicePos(ctx, c.args.rect.p1)
         ELSE r.pos = DevicePos(ctx, c.args.topleft)
    [] c.op = "draw_inverse_ellipse" -> r.pos = DevicePos(ctx, c.args.pos)
    [] c.op = "draw_line" ->
         r.pos = DevicePos(ctx, c.args.pos1) /\ r.dest_pos = DevicePos(ctx, c.args.pos2)
    [] c.op = "draw_triangle" ->
         /\ r.pos1 = DevicePos(ctx, c.args.pos1)
         /\ r.pos2 = DevicePos(ctx, c.args.pos2)
         /\ r.pos3 = DevicePos(ctx, c.args.pos3)
    [] c.op = "get_pixel" -> r.pos = DevicePos(ctx, c.args.position)

\* C13: every positional field a draw operation stores in its request is
\* (world_pos - floor(translation)) + viewport.top_left of the context at the
\* call, applied once: the origin of every destination rectangle (its size
\* kept), both corners of a gradient's region, the position of a rectangle
\* and of an ellipse, both ends of a line, the three vertices of a triangle
\* and the position of a pixel query.
C13_PositionsInDeviceSpace ==
  [][ (call'.op \in DrawOps /\ Allocated) =>
         PositionsBaked(m_context, call', NewRequest) ]_vars

\* a gradient was stored under the context scrolled by (2.5, -2.5): its
\* corners (0, 0) and (3, 1) became (-2, 3) and (1, 4)
C13_Witness ==
  /\ call.op = "draw_gradient"
  /\ m_context.translation = Vector(5, -5)
  /\ m_obst[Len(m_obst)].type = "GRADIENT"
  /\ m_obst[Len(m_obst)].region = [p1 |-> <<-4, 6>>, p2 |-> <<2, 8>>]

\* x is the product of the alpha values a and b, in lowest terms
IsAlphaProduct(x, a, b) ==
  /\ x.num * Pow2(a.exp + b.exp) = a.num * b.num * Pow2(x.exp)
  /\ x.num % 2 = 1 \/ (x.num = 0 /\ x.exp = 0)

\* the colors the caller passed to a draw operation that stores a color
CallerColors(c) ==
  CASE c.op \in {"draw_surface_scaled", "draw_surface_part"} -> <<c.args.style.color>>
    [] c.op = "draw_gradient" -> <<c.args.top, c.args.bottom>>
    [] OTHER -> <<c.args.color>>

\* the colors a request stores
StoredColors(r) == IF r.type = "GRADIENT" THEN <<r.top, r.bottom>> ELSE <<r.color>>

ColorOps == DrawOps \ {"get_pixel"}

\* C14 as the spec states it: the alpha of every color a request stores is
\* the alpha of the caller's color times the transform alpha of the context
\* at the draw call, whatever the variant of the request.
C14_AlphaFoldedInEveryColor ==
  [][ (call'.op \in ColorOps /\ Allocated) =>
         \A i \in 1..Len(StoredColors(NewRequest)) :
            IsAlphaProduct(StoredColors(NewRequest)[i].alpha,
                           CallerColors(call')[i].alpha, m_context.alpha) ]_vars

FoldedVariants == {"FILLRECT", "INVERSEELLIPSE", "LINE", "TRIANGLE"}

\* C14 amended: a rectangle, ellipse, line or triangle request stores the
\* caller's color with its alpha multiplied by the transform alpha of the
\* context at the draw call; a texture or gradient request stores its colors
\* as the caller passed them and carries the transform alpha (for
\* draw_surface_part and draw_surface_scaled times the alpha of the style) in
\* its own alpha field; render hands the Painter the colors as stored.
C14_AlphaFoldedInShapeColors ==
  [][ /\ (call'.op \in ColorOps /\ Allocated) =>
            /\ \A i \in 1..Len(StoredColors(NewRequest)) :
                  /\ StoredColors(NewRequest)[i].rgb = CallerColors(call')[i].rgb
                  /\ IF NewRequest.type \in FoldedVariants
                     THEN IsAlphaProduct(StoredColors(NewRequest)[i].alpha,
                                         CallerColors(call')[i].alpha, m_context.alpha)
                     ELSE StoredColors(NewRequest)[i].alpha = CallerColors(call')[i].alpha
            /\ IF call'.op \in {"draw_surface_scaled", "draw_surface_part"}
               THEN IsAlphaProduct(NewRequest.alpha, m_context.alpha,
                                   call'.args.style.alpha)
               ELSE NewRequest.alpha = m_context.alpha
      /\ call'.op = "render" =>
            \A i \in 1..Len(painter_calls') :
               painter_calls'[i].request.type # "GETPIXEL" =>
                  StoredColors(painter_calls'[i].request)
                    = StoredColors(m_obst[painter_calls'[i].ptr]) ]_vars

\* under a context of alpha 1 a render pass handed the Painter a line that
\* was stored, under the context of alpha 0.25, with a color of alpha 0.125
C14_Witness ==
  /\ call.op = "render"
  /\ m_context.alpha = AlphaOne
  /\ Len(painter_calls) = 1
  /\ painter_calls[1].request.type = "LINE"
  /\ painter_calls[1].request.alpha = [num |-> 1, exp |-> 2]
  /\ painter_calls[1].request.color.alpha = [num |-> 1, exp |-> 3]

\* bit b (1 or 2) is set in the flip
HasBit(flip, b) == (flip \div b) % 2 = 1

TextureOps == {"draw_surface", "draw_surface_scaled", "draw_surface_part",
               "draw_surface_batch"}

\* C16: a texture request built by draw_surface, draw_surface_part,
\* draw_surface_scaled or draw_surface_batch stores the exclusive-or of the
\* flip of the context at the draw call and the flip of the surface; a
\* gradient, rectangle, ellipse, line or triangle request stores the flip of
\* the context alone.
C16_FlipXorSurface ==
  [][ (call'.op \in ColorOps /\ Allocated) =>
         IF call'.op \in TextureOps
         THEN \A b \in {1, 2} :
                 HasBit(NewRequest.flip, b)
                   <=> (HasBit(m_context.flip, b) # HasBit(call'.args.surface.flip, b))
         ELSE NewRequest.flip = m_context.flip ]_vars

\* a surface flipped as the context is (flip 1 under flip 1) was stored
\* unflipped
C16_Witness ==
  /\ call.op = "draw_surface_batch"
  /\ m_context.flip = 1
  /\ call.args.surface.flip = 1
  /\ m_obst[Len(m_obst)].type = "TEXTURE"
  /\ m_obst[Len(m_obst)].flip = 0

----------------------------------------------------------------------------
(* Properties of the preconditions: SpecNull *)

RefOps == {"draw_surface", "draw_surface_scaled", "draw_surface_part",
           "draw_surface_batch", "draw_text", "draw_center_text"}

\* the call was given no surface, or no font
NullRef(c) ==
  IF c.op \in {"draw_text", "draw_center_text"}
  THEN c.args.font = nullptr
  ELSE c.args.surface = nullptr

\* C15: a draw operation that takes a surface or a font and is given a null
\* reference fails an assertion, before it uses the reference and before it
\* allocates or enqueues anything: the call ends in the failed assertion,
\* never in a fault of the use, and the queue is unchanged.
C15_NullRefAsserted ==
  [][ (call'.op \in RefOps /\ NullRef(call')) =>
         /\ call'.outcome = "assert_failed"
         /\ UNCHANGED <<m_requests, m_obst>> ]_vars

----------------------------------------------------------------------------
(* Properties of the layer bands: SpecOrder *)

\* the requests a render pass with the filter is to dispatch
InBand(filter, layer) ==
  CASE filter = "BELOW_LIGHTMAP" -> layer < LAYER_LIGHTMAP
    [] filter = "ABOVE_LIGHTMAP" -> layer > LAYER_LIGHTMAP
    [] filter = "ALL" -> TRUE

\* C17: a render pass with BELOW_LIGHTMAP dispatches exactly the queued
\* requests with layer < LAYER_LIGHTMAP, one with ABOVE_LIGHTMAP exactly those
\* with layer > LAYER_LIGHTMAP and an unfiltered one all of them; so a BELOW
\* pass followed by an ABOVE pass dispatches every request with layer #
\* LAYER_LIGHTMAP exactly once and a request with layer = LAYER_LIGHTMAP in
\* neither pass.
C17_BandsStrict ==
  [][ call'.op = "render" =>
        /\ \A p \in Range(m_requests) :
              CallsFor(painter_calls', p)
                = IF InBand(call'.args.filter, m_obst[p].layer) THEN 1 ELSE 0
        /\ (/\ call.op = "render"
            /\ call.args.filter = "BELOW_LIGHTMAP"
            /\ call'.args.filter = "ABOVE_LIGHTMAP") =>
              \A p \in Range(m_requests) :
                 CallsFor(painter_calls, p) + CallsFor(painter_calls', p)
                   = IF m_obst[p].layer # LAYER_LIGHTMAP THEN 1 ELSE 0 ]_vars

\* an ABOVE_LIGHTMAP pass over requests below, at and above the lightmap's
\* layer dispatched the one above alone
C17_Witness ==
  /\ call.op = "render"
  /\ call.args.filter = "ABOVE_LIGHTMAP"
  /\ {m_obst[p].layer : p \in Range(m_requests)}
       = {LAYER_LIGHTMAP - 1, LAYER_LIGHTMAP, LAYER_LIGHTMAP + 1}
  /\ Len(painter_calls) = 1
  /\ painter_calls[1].request.layer = LAYER_LIGHTMAP + 1
  /\ \A p \in Range(m_requests) : visits[p] = 2

----------------------------------------------------------------------------
(* Properties of the queue over its life: Spec *)

\* C18: a render pass neither adds, removes nor destructs a request: it
\* leaves the objects alone and the queue a permutation of what it was; two
\* render passes in a row with the same filter make the same sequence of
\* Painter calls; and the queue shrinks in clear() alone (which ~Canvas calls).
C18_RenderOnlyPermutes ==
  [][ /\ call'.op = "render" =>
            /\ Len(m_requests') = Len(m_requests)
            /\ Range(m_requests') = Range(m_requests)
            /\ m_obst' = m_obst
            /\ destructed' = <<>>
            /\ (call.op = "render" /\ call.args.filter = call'.args.filter) =>
                  painter_calls' = painter_calls
      /\ Len(m_requests') < Len(m_requests) => call'.op \in {"clear", "~Canvas"} ]_vars

\* a second render pass in a row went over two queued requests
C18_Witness ==
  /\ call.op = "render"
  /\ Len(m_requests) = 2
  /\ Len(painter_calls) = 2
  /\ \A p \in Range(m_requests) : visits[p] = 2

\* C19: a request is destructed once and no more: the queue holds every
\* object of the obstack whose destructor has not run, each once, and no
\* object whose destructor has run, so that clear() and ~Canvas destruct each
\* queued request once and a clear() or ~Canvas after them destructs nothing;
\* once ~Canvas has run, no object is left without its destructor call.
C19_DestructedExactlyOnce ==
  /\ \A i, j \in 1..Len(m_requests) : m_requests[i] = m_requests[j] => i = j
  /\ \A p \in 1..Len(m_obst) : (m_obst[p] # Destructed) <=> p \in Range(m_requests)
  /\ \A i \in 1..Len(destructed) : m_obst[destructed[i].ptr] = Destructed
  /\ \A i, j \in 1..Len(destructed) : destructed[i].ptr = destructed[j].ptr => i = j
  /\ ~alive => \A p \in 1..Len(m_obst) : m_obst[p] = Destructed

\* ~Canvas destructed the request that was queued, after an earlier clear()
\* had destructed another
C19_Witness ==
  /\ call.op = "~Canvas"
  /\ Len(m_obst) = 2
  /\ Len(destructed) = 1
  /\ destructed[1].ptr = 2
  /\ m_obst[1] = Destructed

====
